---- MODULE Spec2Model ----
(***************************************************************************)
(* The polls application: the Question and Choice tables of               *)
(* polls/models.py, the four views of polls/views.py, and the operations  *)
(* on the store that polls/tests.py exercises.                             *)
(*                                                                         *)
(* Time is counted in whole seconds.  Strings are sequences of one-letter  *)
(* strings so that formatting and substring search are computed.           *)
(***************************************************************************)
EXTENDS Integers, Sequences, FiniteSets, TLC

VARIABLES now, questions, nextQid, choices, nextCid, result

vars == <<now, questions, nextQid, choices, nextCid, result>>

(* ------------------------------ bounds --------------------------------- *)

MaxDays == 1            \* the clock and pub_date range over days 0..MaxDays
MaxSecs == 2            \* ... and seconds 0..MaxSecs within each of them
MaxQuestions == 2       \* rows ever inserted into Question (store and views)
MaxChoices == 2         \* rows ever inserted into Choice
MaxVotes == 2           \* largest votes value submitted
MaxIndexQuestions == 6  \* rows ever inserted into Question (index listing)

(* --------------------------- program constants ------------------------- *)

Day == 86400            \* datetime.timedelta(days=1), in seconds
IndexLimit == 5         \* the slice [:5] of index

(* ------------------------------- strings ------------------------------- *)

Digit == <<"0", "1", "2", "3", "4", "5", "6", "7", "8", "9">>

RECURSIVE IntToStr(_)
\* "%s" % n for a non-negative integer n
IntToStr(n) ==
    IF n < 10 THEN <<Digit[n + 1]>>
    ELSE IntToStr(n \div 10) \o <<Digit[(n % 10) + 1]>>

\* text in body, as assertContains searches it
Contains(body, text) ==
    \E i \in 1..(Len(body) - Len(text) + 1) :
        SubSeq(body, i, i + Len(text) - 1) = text

PastText == <<"P", "a", "s", "t", " ", "Q", ".">>
WordText == <<"q", "u", "e", "s", "t", "i", "o", "n">>
SampleText == <<"S", "a", "m", "p", "l", "e", "?">>
Texts == {PastText, WordText}

ResultsPrefix ==
    <<"Y", "o", "u", "'", "r", "e", " ", "l", "o", "o", "k", "i", "n", "g", " ",
      "a", "t", " ", "t", "h", "e", " ", "r", "e", "s", "u", "l", "t", "s", " ",
      "o", "f", " ", "q", "u", "e", "s", "t", "i", "o", "n", " ">>
VotePrefix ==
    <<"Y", "o", "u", "'", "r", "e", " ", "v", "o", "t", "i", "n", "g", " ",
      "o", "n", " ", "q", "u", "e", "s", "t", "i", "o", "n", " ">>
NotFoundBody == <<"N", "o", "t", " ", "F", "o", "u", "n", "d">>

(* -------------------------------- time --------------------------------- *)

Times == {d * Day + s : d \in 0..MaxDays, s \in 0..MaxSecs}

(* ------------------------------- models -------------------------------- *)

\* no operation in progress
Idle == [op |-> "idle"]

\* Question.was_published_recently with strict lower bound
was_published_recently_strict(q) ==
    now - Day < q.pub_date /\ q.pub_date <= now

\* Question.was_published_recently
was_published_recently(q) ==
    now - Day <= q.pub_date /\ q.pub_date <= now

\* CheckConstraint that admits -1
votes_non_negative_loose(v) == v >= -1

\* CheckConstraint(check=Q(votes__gte=0), name='votes_non_negative')
votes_non_negative(v) == v >= 0

\* rows of Choice that survive deleting Question qid when nothing cascades
CascadeNone(qid) == choices

\* on_delete=models.CASCADE: the rows of Choice that survive deleting qid
Cascade(qid) ==
    [c \in {x \in DOMAIN choices : choices[x].question # qid} |-> choices[c]]

Init ==
    /\ now = Day
    /\ questions = <<>>
    /\ nextQid = 1
    /\ choices = <<>>
    /\ nextCid = 1
    /\ result = Idle

\* the caller receives the outcome of the operation; the next one may start
Return ==
    /\ result # Idle
    /\ result' = Idle
    /\ UNCHANGED <<now, questions, nextQid, choices, nextCid>>

\* the clock advances between operations
Tick(t) ==
    /\ result = Idle
    /\ t \in Times
    /\ t > now
    /\ now' = t
    /\ UNCHANGED <<questions, nextQid, choices, nextCid, result>>

\* Question.objects.create(question_text=text, pub_date=pub)
CreateQuestion(text, pub, cap) ==
    /\ result = Idle
    /\ nextQid <= cap
    /\ questions' = (nextQid :> [question_text |-> text, pub_date |-> pub]) @@ questions
    /\ nextQid' = nextQid + 1
    /\ result' = [op |-> "create_question", id |-> nextQid]
    /\ UNCHANGED <<now, choices, nextCid>>

\* question.delete()
DeleteQuestion(qid) ==
    /\ result = Idle
    /\ qid \in DOMAIN questions
    /\ questions' = [q \in DOMAIN questions \ {qid} |-> questions[q]]
    /\ choices' = Cascade(qid)
    /\ result' = [op |-> "delete_question", id |-> qid,
                  deleted |-> 1 + Cardinality(DOMAIN choices)
                                - Cardinality(DOMAIN Cascade(qid))]
    /\ UNCHANGED <<now, nextQid, nextCid>>

\* a create that drops the supplied votes and stores the field default
CreateChoiceDefaultVotes(qid, text, v) ==
    /\ result = Idle
    /\ nextCid <= MaxChoices
    /\ IF votes_non_negative(v) /\ qid \in DOMAIN questions
       THEN /\ choices' = (nextCid :> [question |-> qid, choice_text |-> text,
                                        votes |-> 0]) @@ choices
            /\ nextCid' = nextCid + 1
            /\ result' = [op |-> "create_choice", question |-> qid, votes |-> v,
                          status |-> "ok", id |-> nextCid]
       ELSE /\ result' = [op |-> "create_choice", question |-> qid, votes |-> v,
                          status |-> "IntegrityError", id |-> 0]
            /\ UNCHANGED <<choices, nextCid>>
    /\ UNCHANGED <<now, questions, nextQid>>

\* Choice.objects.create(question=qid, choice_text=text, votes=v)
CreateChoice(qid, text, v) ==
    /\ result = Idle
    /\ nextCid <= MaxChoices
    /\ IF votes_non_negative(v) /\ qid \in DOMAIN questions
       THEN /\ choices' = (nextCid :> [question |-> qid, choice_text |-> text,
                                        votes |-> v]) @@ choices
            /\ nextCid' = nextCid + 1
            /\ result' = [op |-> "create_choice", question |-> qid, votes |-> v,
                          status |-> "ok", id |-> nextCid]
       ELSE /\ result' = [op |-> "create_choice", question |-> qid, votes |-> v,
                          status |-> "IntegrityError", id |-> 0]
            /\ UNCHANGED <<choices, nextCid>>
    /\ UNCHANGED <<now, questions, nextQid>>

\* choice.votes = v; choice.save()
UpdateChoice(cid, v) ==
    /\ result = Idle
    /\ cid \in DOMAIN choices
    /\ IF votes_non_negative(v)
       THEN /\ choices' = [choices EXCEPT ![cid].votes = v]
            /\ result' = [op |-> "update_choice", id |-> cid, votes |-> v,
                          status |-> "ok"]
       ELSE /\ result' = [op |-> "update_choice", id |-> cid, votes |-> v,
                          status |-> "IntegrityError"]
            /\ UNCHANGED choices
    /\ UNCHANGED <<now, questions, nextQid, nextCid>>

\* choice.delete()
DeleteChoice(cid) ==
    /\ result = Idle
    /\ cid \in DOMAIN choices
    /\ choices' = [c \in DOMAIN choices \ {cid} |-> choices[c]]
    /\ result' = [op |-> "delete_choice", id |-> cid]
    /\ UNCHANGED <<now, questions, nextQid, nextCid>>

\* question.was_published_recently() on a stored Question
PublishedRecently(qid) ==
    /\ result = Idle
    /\ qid \in DOMAIN questions
    /\ result' = [op |-> "was_published_recently", id |-> qid,
                  value |-> was_published_recently(questions[qid])]
    /\ UNCHANGED <<now, questions, nextQid, choices, nextCid>>

(* -------------------------------- views -------------------------------- *)

\* the ids of S whose pub_date comes first in the given direction
First(S, desc) ==
    {q \in S : \A r \in S :
        IF desc THEN questions[r].pub_date <= questions[q].pub_date
        ELSE questions[q].pub_date <= questions[r].pub_date}

RECURSIVE Orderings(_, _)
\* every order in which the database may return the rows S sorted on pub_date;
\* rows with equal pub_date come in any order
Orderings(S, desc) ==
    IF S = {} THEN {<<>>}
    ELSE UNION {{<<q>> \o rest : rest \in Orderings(S \ {q}, desc)} :
                q \in First(S, desc)}

\* Question.objects.order_by("-pub_date")
order_by_pub_date_desc(S) == Orderings(S, TRUE)

\* Question.objects.order_by("pub_date")
order_by_pub_date(S) == Orderings(S, FALSE)

\* lst[:n]
Slice(lst, n) == SubSeq(lst, 1, IF Len(lst) < n THEN Len(lst) ELSE n)

\* what polls/detail.html renders for a Question
RenderDetail(q) == q.question_text

\* index(request)
index ==
    /\ result = Idle
    /\ \E lst \in order_by_pub_date(DOMAIN questions) :
          result' = [op |-> "index", status |-> 200,
                     latest_question_list |-> Slice(lst, IndexLimit)]
    /\ UNCHANGED <<now, questions, nextQid, choices, nextCid>>

\* detail(request, question_id)
detail(question_id) ==
    /\ result = Idle
    /\ IF question_id \in DOMAIN questions
       THEN result' = [op |-> "detail", question_id |-> question_id,
                       status |-> 200, question |-> questions[question_id],
                       body |-> RenderDetail(questions[question_id])]
       ELSE result' = [op |-> "detail", question_id |-> question_id,
                       status |-> 404, body |-> NotFoundBody]
    /\ UNCHANGED <<now, questions, nextQid, choices, nextCid>>

\* results(request, question_id)
results(question_id) ==
    /\ result = Idle
    /\ result' = [op |-> "results", question_id |-> question_id, status |-> 200,
                  body |-> ResultsPrefix \o IntToStr(question_id) \o <<".">>]
    /\ UNCHANGED <<now, questions, nextQid, choices, nextCid>>

\* a vote view that counts the submitted choice
vote_counting(question_id, choice) ==
    /\ result = Idle
    /\ result' = [op |-> "vote", question_id |-> question_id, choice |-> choice,
                  status |-> 200,
                  body |-> VotePrefix \o IntToStr(question_id) \o <<".">>]
    /\ choices' = [c \in DOMAIN choices |->
                     IF c = choice /\ choices[c].question = question_id
                     THEN [choices[c] EXCEPT !.votes = @ + 1] ELSE choices[c]]
    /\ UNCHANGED <<now, questions, nextQid, nextCid>>

\* vote(request, question_id); choice is the submitted form value
vote(question_id, choice) ==
    /\ result = Idle
    /\ result' = [op |-> "vote", question_id |-> question_id, choice |-> choice,
                  status |-> 200,
                  body |-> VotePrefix \o IntToStr(question_id) \o <<".">>]
    /\ UNCHANGED <<now, questions, nextQid, choices, nextCid>>

(* ---------------------------- specifications --------------------------- *)

QuestionIds == 1..(MaxQuestions + 1)
ChoiceIds == 0..(MaxChoices + 1)
VoteValues == (-1)..MaxVotes
IndexPubDates == {now - Day, now - 1, now, now + Day}

\* the store: Question and Choice rows created, updated, deleted and viewed
NextStore ==
    \/ Return
    \/ CreateQuestion(SampleText, now, MaxQuestions)
    \/ \E qid \in QuestionIds : DeleteQuestion(qid)
    \/ \E qid \in QuestionIds, v \in VoteValues : CreateChoice(qid, SampleText, v)
    \/ \E cid \in ChoiceIds, v \in VoteValues : UpdateChoice(cid, v)
    \/ \E cid \in ChoiceIds : DeleteChoice(cid)
    \/ index
    \/ \E qid \in QuestionIds : detail(qid)
    \/ \E qid \in QuestionIds : results(qid)
    \/ \E qid \in QuestionIds, cid \in ChoiceIds : vote(qid, cid)

SpecStore == Init /\ [][NextStore]_vars

\* the detail and results pages of Questions published at any time
NextViews ==
    \/ Return
    \/ \E t \in Times : Tick(t)
    \/ \E text \in Texts, pub \in Times : CreateQuestion(text, pub, MaxQuestions)
    \/ \E qid \in QuestionIds : DeleteQuestion(qid)
    \/ \E qid \in QuestionIds : detail(qid)
    \/ \E qid \in QuestionIds : results(qid)

SpecViews == Init /\ [][NextViews]_vars

\* the index page over a store of past and future Questions
NextIndex ==
    \/ Return
    \/ \E pub \in IndexPubDates : CreateQuestion(SampleText, pub, MaxIndexQuestions)
    \/ \E qid \in 1..MaxIndexQuestions : DeleteQuestion(qid)
    \/ index

SpecIndex == Init /\ [][NextIndex]_vars

\* one stored Question with any pub_date, asked at any time
InitRecent ==
    /\ now \in Times
    /\ \E text \in Texts, pub \in Times :
          questions = (1 :> [question_text |-> text, pub_date |-> pub])
    /\ nextQid = 2
    /\ choices = <<>>
    /\ nextCid = 1
    /\ result = Idle

NextRecent ==
    \/ Return
    \/ \E t \in Times : Tick(t)
    \/ \E qid \in DOMAIN questions : PublishedRecently(qid)

SpecRecent == InitRecent /\ [][NextRecent]_vars

(* ------------------------------ properties ----------------------------- *)

PubDate(qid) == questions[qid].pub_date
Listed(lst) == {lst[i] : i \in 1..Len(lst)}
PastQuestions == {q \in DOMAIN questions : PubDate(q) <= now}

\* C1: was_published_recently() is true exactly when the pub_date is at most
\* 24 hours before now and not after now: exactly 24 hours ago gives true,
\* one second more than 24 hours ago gives false, any later-than-now
\* pub_date gives false.
C1_PublishedRecently ==
    result.op = "was_published_recently" =>
        LET age == now - PubDate(result.id) IN
        /\ result.value = (0 <= age /\ age <= Day)
        /\ (age = Day => result.value = TRUE)
        /\ (age = Day + 1 => result.value = FALSE)
        /\ (age < 0 => result.value = FALSE)

C1_Witness ==
    /\ result.op = "was_published_recently"
    /\ now - PubDate(result.id) = Day
    /\ result.value = TRUE

\* C2: every stored Choice has votes >= 0, and a create or an update that
\* submits negative votes fails.
C2_VotesNonNegative ==
    /\ \A c \in DOMAIN choices : choices[c].votes >= 0
    /\ (result.op \in {"create_choice", "update_choice"} /\ result.votes < 0)
          => result.status = "IntegrityError"

C2_Witness ==
    /\ result.op = "update_choice"
    /\ result.votes < 0
    /\ result.status = "IntegrityError"
    /\ choices[result.id].votes >= 0

\* C3: creating a Choice for an existing Question with votes >= 0 succeeds and
\* stores exactly the supplied votes; with negative votes it fails with an
\* integrity error and adds no Choice.
C3_CreateChoice ==
    [][(result'.op = "create_choice" /\ result'.question \in DOMAIN questions) =>
          IF result'.votes >= 0
          THEN /\ result'.status = "ok"
               /\ result'.id \notin DOMAIN choices
               /\ DOMAIN choices' = DOMAIN choices \cup {result'.id}
               /\ choices'[result'.id].votes = result'.votes
               /\ choices'[result'.id].question = result'.question
               /\ \A c \in DOMAIN choices : choices'[c] = choices[c]
          ELSE /\ result'.status = "IntegrityError"
               /\ choices' = choices]_vars

C3_Witness ==
    /\ result.op = "create_choice"
    /\ result.question \in DOMAIN questions
    /\ result.votes = -1
    /\ result.status = "IntegrityError"

\* C4: the list returned by index contains no Question whose pub_date is
\* later than now.
C4_IndexNoFuture ==
    result.op = "index" =>
        \A q \in Listed(result.latest_question_list) : PubDate(q) <= now

\* C5: index returns at most 5 stored Questions in ascending order of
\* pub_date; the list is empty for an empty store, and when at most 5
\* past-dated Questions are stored every one of them is listed.
C5_IndexOrdered ==
    result.op = "index" =>
        LET lst == result.latest_question_list IN
        /\ Len(lst) <= IndexLimit
        /\ Listed(lst) \subseteq DOMAIN questions
        /\ \A i \in 1..(Len(lst) - 1) : PubDate(lst[i]) <= PubDate(lst[i + 1])
        /\ (DOMAIN questions = {} => lst = <<>>)
        /\ (Cardinality(PastQuestions) <= IndexLimit
              => PastQuestions \subseteq Listed(lst))

C5_Witness ==
    /\ result.op = "index"
    /\ Cardinality(DOMAIN questions) > IndexLimit
    /\ Len(result.latest_question_list) = IndexLimit
    /\ PastQuestions # {}
    /\ PastQuestions \subseteq Listed(result.latest_question_list)
    /\ \E q, r \in Listed(result.latest_question_list) : PubDate(q) < PubDate(r)

\* C6: detail and results answer 404 for the id of a stored Question whose
\* pub_date is later than now.
C6_FutureNotFound ==
    (/\ result.op \in {"detail", "results"}
     /\ result.question_id \in DOMAIN questions
     /\ PubDate(result.question_id) > now)
        => result.status = 404

\* C7: detail and results answer 404 for an id that is not stored, and detail
\* returns the Question with the requested id when it is stored.
C7_MissingNotFound ==
    /\ (result.op \in {"detail", "results"}
          /\ result.question_id \notin DOMAIN questions)
          => result.status = 404
    /\ (result.op = "detail" /\ result.question_id \in DOMAIN questions)
          => /\ result.status = 200
             /\ result.question = questions[result.question_id]

\* C8: deleting a Question removes exactly the Choices that reference it and
\* leaves every other Question and Choice unchanged, so every stored Choice
\* references a stored Question.
C8_CascadeDelete ==
    /\ [](\A c \in DOMAIN choices : choices[c].question \in DOMAIN questions)
    /\ [][result'.op = "delete_question" =>
            /\ DOMAIN questions' = DOMAIN questions \ {result'.id}
            /\ \A q \in DOMAIN questions' : questions'[q] = questions[q]
            /\ DOMAIN choices' =
                  {c \in DOMAIN choices : choices[c].question # result'.id}
            /\ \A c \in DOMAIN choices' : choices'[c] = choices[c]]_vars

C8_Witness ==
    /\ result.op = "delete_question"
    /\ result.deleted > 1
    /\ DOMAIN choices # {}

\* C9: vote, index, detail and results leave the stored Questions, the stored
\* Choices and every votes value as they were.
C9_ViewsReadOnly ==
    [][result'.op \in {"vote", "index", "detail", "results"} =>
          /\ questions' = questions
          /\ choices' = choices]_vars

C9_Witness ==
    /\ result.op = "vote"
    /\ result.choice \in DOMAIN choices
    /\ choices[result.choice].question = result.question_id

\* C10: for a stored Question whose pub_date is not later than now, the
\* results page and the detail page contain its question_text.
C10_ShowsQuestionText ==
    (/\ result.op \in {"detail", "results"}
     /\ result.question_id \in DOMAIN questions
     /\ PubDate(result.question_id) <= now)
        => Contains(result.body, questions[result.question_id].question_text)

====
